---- MODULE Spec2Model ----
(***************************************************************************)
(* Facility-booking preference form (Streamlit): src/app.py is the group   *)
(* variant with a password-gated admin tab, src/form.py the individual     *)
(* variant without a gate.  Both share time_slots, validate_range,         *)
(* make_excel_by_date and the submit / export handlers.                    *)
(*                                                                         *)
(* Strings that the code inspects character by character (names, places)   *)
(* are sequences of one-character strings.  A time-of-day string is a      *)
(* record [fmt, min]: fmt says how the text is written ("HM" = "09:00",    *)
(* "HMS" = "09:00:00", "bad" = unparseable text, "empty" = ""), min is the *)
(* minute of the day the text denotes.  Two strings are equal iff the      *)
(* records are equal.                                                      *)
(***************************************************************************)
EXTENDS Integers, Sequences, FiniteSets, TLC

VARIABLES
    variant,      \* "app" (src/app.py) or "form" (src/form.py): the deployed script
    ADMIN_PASSWORD, \* app.admin_password of the secrets (a string, "" when unset)
    store,        \* the rows of worksheet "data" below its header
    cache,        \* st.cache_data of load_df: [valid, df]
    admin_auth,   \* st.session_state["admin_auth"]
    admin_msg,    \* st.session_state["admin_msg"]
    page,         \* the admin-tab branch the last script run rendered
    df,           \* the DataFrame handed to make_excel_by_date
    files,        \* the working directory: file name -> workbook, or NoFile
    call          \* the last operation: [op, arg, ret]

vars == <<variant, ADMIN_PASSWORD, store, cache, admin_auth, admin_msg, page,
          df, files, call>>

(***************************************************************************)
(* Bounds of the model.                                                    *)
(***************************************************************************)
MaxRows == 2        \* rows of a DataFrame given to make_excel_by_date
MaxSubmits == 2     \* successful submissions stored
MaxClock == 1       \* the last second at which a submission is made

(***************************************************************************)
(* Time-of-day strings.                                                    *)
(***************************************************************************)
HM(m) == [fmt |-> "HM", min |-> m]
HMS(m) == [fmt |-> "HMS", min |-> m]
BadText == [fmt |-> "bad", min |-> 0]
EmptyText == [fmt |-> "empty", min |-> 0]

\* pd.to_datetime(text): a Timestamp, NaT for "", or an exception
to_datetime(text) ==
    CASE text.fmt \in {"HM", "HMS"} -> [kind |-> "ts", min |-> text.min]
      [] text.fmt = "empty" -> [kind |-> "nat", min |-> 0]
      [] OTHER -> [kind |-> "raise", min |-> 0]

\* Timestamp.strftime("%H:%M"); NaT.strftime raises
strftime(t) ==
    IF t.kind = "ts" THEN HM(t.min) ELSE BadText

\* pd.date_range(base, end, freq): base, base+step, ... while <= end
RECURSIVE date_range(_, _, _)
date_range(t, end, step) ==
    IF t > end THEN <<>> ELSE <<t>> \o date_range(t + step, end, step)

time_slots(day_start, day_end, step_min) ==
    LET base == to_datetime(day_start)
        end == to_datetime(day_end)
        ticks == date_range(base.min, end.min, step_min)
    IN  [k \in 1..Len(ticks) |-> strftime([kind |-> "ts", min |-> ticks[k]])]

(***************************************************************************)
(* Configuration (st.secrets["app"]).                                      *)
(***************************************************************************)
ALLOWED_DATES == <<"2025-10-25", "2025-10-26">>
ALLOWED_PLACES == << <<"M", "a", "i", "n">>, <<"S", "u", "b">> >>
DAY_START == HM(540)
DAY_END == HM(585)

SLOTS == time_slots(DAY_START, DAY_END, 15)

\* pd.NA of the Int64 column "priority" (what pd.to_numeric coerces to)
NA == 0 - 1

SeqToSet(s) == {s[k] : k \in 1..Len(s)}

\* the one element of a singleton set
The(S) == CHOOSE x \in S : TRUE

\* validate_range: [raised, ok]; a comparison with NaT is False
validate_range(start, end) ==
    LET s == to_datetime(start)
        e == to_datetime(end)
    IN  IF s.kind = "raise" \/ e.kind = "raise"
        THEN [raised |-> TRUE, ok |-> FALSE]
        ELSE [raised |-> FALSE,
              ok |-> s.kind = "ts" /\ e.kind = "ts" /\ s.min < e.min]

\* hashlib.md5(name.encode("utf-8")) as an integer, modulo the palette size 12
\* (the digests of the names the model uses)
md5_mod_palette(name) ==
    CASE name = <<"A">> -> 1
      [] name = <<"a">> -> 1
      [] name = <<"B">> -> 1
      [] name = <<" ", "a">> -> 1
      [] name = <<"A", " ">> -> 10
      [] name = <<"b">> -> 7
      [] OTHER -> 0

palette ==
    << "#CFE8FF", "#FFD6A5", "#B9FBC0", "#FFADAD", "#FDFFB6", "#A0C4FF",
       "#CAFFBF", "#9BF6FF", "#F1C0E8", "#BDB2FF", "#FFC6FF", "#E0F7FA" >>

name_to_color(name) == palette[md5_mod_palette(name) + 1]

(***************************************************************************)
(* make_excel_by_date.  A cell is [value, fill]: value is the list of the  *)
(* priorities whose labels the cell's text joins with commas (<<>> is an   *)
(* empty cell), fill is the colour or "none".  The cells of a requester    *)
(* row are indexed by their Excel column, 2 .. Len(SLOTS)+1.               *)
(***************************************************************************)
SheetTitleMax == 31

SlotCols == 2..(Len(SLOTS) + 1)
EmptyCell == [value |-> <<>>, fill |-> "none"]
EmptyCells == [c \in SlotCols |-> EmptyCell]

\* list.index: the 0-based position of the first equal item, -1 for ValueError
index(list, x) ==
    IF \E k \in 1..Len(list) : list[k] = x
    THEN (CHOOSE k \in 1..Len(list) :
              list[k] = x /\ \A j \in 1..(k - 1) : list[j] # x) - 1
    ELSE 0 - 1

\* fill_span with range(start_col, end_col_exclusive + 1): the column of the
\* end label is filled too
RECURSIVE fill_span_inclusive(_, _, _, _, _)
fill_span_inclusive(cells, c, end_col_exclusive, fill, pr) ==
    IF c > end_col_exclusive THEN cells
    ELSE fill_span_inclusive(
            [cells EXCEPT ![c] = [value |-> Append(cells[c].value, pr),
                                  fill |-> fill]],
            c + 1, end_col_exclusive, fill, pr)

\* fill_span with "cell.value = label": a later label replaces the earlier ones
RECURSIVE fill_span_overwrite(_, _, _, _, _)
fill_span_overwrite(cells, c, end_col_exclusive, fill, pr) ==
    IF c >= end_col_exclusive THEN cells
    ELSE fill_span_overwrite(
            [cells EXCEPT ![c] = [value |-> <<pr>>, fill |-> fill]],
            c + 1, end_col_exclusive, fill, pr)

\* fill_span with a colour chosen by the record's priority instead of the
\* colour of the requester
RECURSIVE fill_span_rank_colour(_, _, _, _, _)
fill_span_rank_colour(cells, c, end_col_exclusive, fill, pr) ==
    IF c >= end_col_exclusive THEN cells
    ELSE fill_span_rank_colour(
            [cells EXCEPT ![c] = [value |-> Append(cells[c].value, pr),
                                  fill |-> palette[((pr + 2) % Len(palette)) + 1]]],
            c + 1, end_col_exclusive, fill, pr)

\* for c in range(start_col, end_col_exclusive): fill and label cell c
RECURSIVE fill_span(_, _, _, _, _)
fill_span(cells, c, end_col_exclusive, fill, pr) ==
    IF c >= end_col_exclusive THEN cells
    ELSE fill_span(
            [cells EXCEPT ![c] = [value |-> Append(cells[c].value, pr),
                                  fill |-> fill]],
            c + 1, end_col_exclusive, fill, pr)

\* the start/end texts the index lookup sees: app.py reformats them inside a
\* try (a failure skips the record), form.py uses the stored texts
normalize_times(v, start, end) ==
    IF v = "app"
    THEN LET s == to_datetime(start)
             e == to_datetime(end)
         IN  IF s.kind = "ts" /\ e.kind = "ts"
             THEN [skip |-> FALSE, start |-> strftime(s), end |-> strftime(e)]
             ELSE [skip |-> TRUE, start |-> start, end |-> end]
    ELSE [skip |-> FALSE, start |-> start, end |-> end]

\* the cells after a record whose times passed the checks: the index lookup
\* (ValueError: skip) and the loop over its columns
place_span(cells, fill, start, end, pr) ==
    The({ IF idx[1] < 0 \/ idx[2] < 0 THEN cells
          ELSE fill_span(cells, 2 + idx[1], 2 + idx[2], fill, pr) :
          idx \in {<<index(SLOTS, start), index(SLOTS, end)>>} })

\* the body of "for _, rec in sub.iterrows()": [raised, cells]
place_record(v, cells, fill, rec) ==
    IF rec.priority = NA
    THEN [raised |-> TRUE, cells |-> cells]
    ELSE The({ IF n.skip THEN [raised |-> FALSE, cells |-> cells]
               ELSE The({ IF vr.raised THEN [raised |-> TRUE, cells |-> cells]
                          ELSE IF ~vr.ok THEN [raised |-> FALSE, cells |-> cells]
                          ELSE [raised |-> FALSE,
                                cells |-> place_span(cells, fill, n.start,
                                                     n.end, rec.priority)] :
                          vr \in {validate_range(n.start, n.end)} }) :
               n \in {normalize_times(v, rec.start, rec.end)} })

\* the loop over sub.iterrows(): stops at the first exception
RECURSIVE place_records(_, _, _, _)
place_records(v, cells, fill, sub) ==
    IF sub = <<>> THEN [raised |-> FALSE, cells |-> cells]
    ELSE The({ IF r.raised THEN r
               ELSE place_records(v, r.cells, fill, Tail(sub)) :
               r \in {place_record(v, cells, fill, Head(sub))} })

\* Series.unique(): the distinct values in order of first appearance
RECURSIVE unique(_)
unique(s) ==
    IF s = <<>> THEN <<>>
    ELSE The({ IF s[Len(s)] \in SeqToSet(rest) THEN rest
               ELSE Append(rest, s[Len(s)]) :
               rest \in {unique(SubSeq(s, 1, Len(s) - 1))} })

\* one requester row: [raised, row]
user_row(v, df_p, user) ==
    The({ [raised |-> r.raised, row |-> [name |-> user, cells |-> r.cells]] :
          r \in {place_records(v, EmptyCells, name_to_color(user),
                               SelectSeq(df_p, LAMBDA rec : rec.user = user))} })

\* place[:31]
sheet_title(place) ==
    SubSeq(place, 1, IF Len(place) < SheetTitleMax THEN Len(place)
                     ELSE SheetTitleMax)

\* the rows of one sheet, one per user in the order of users: [raised, rows]
RECURSIVE user_rows(_, _, _)
user_rows(v, df_p, users) ==
    IF users = <<>> THEN [raised |-> FALSE, rows |-> <<>>]
    ELSE The({ IF r.raised THEN [raised |-> TRUE, rows |-> <<>>]
               ELSE The({ [raised |-> rest.raised,
                           rows |-> <<r.row>> \o rest.rows] :
                          rest \in {user_rows(v, df_p, Tail(users))} }) :
               r \in {user_row(v, df_p, Head(users))} })

\* the body of "for place in ALLOWED_PLACES": [raised, sheet]
make_sheet(v, df_day, place) ==
    The({ The({ [raised |-> built.raised,
                 sheet |-> [title |-> sheet_title(place),
                            header |-> <<"name">> \o SLOTS,
                            rows |-> built.rows]] :
                built \in {user_rows(v, df_p,
                              unique([k \in 1..Len(df_p) |-> df_p[k].user]))} }) :
          df_p \in {SelectSeq(df_day, LAMBDA rec : rec.place = place)} })

\* the loop "for place in ALLOWED_PLACES": [raised, wb]
RECURSIVE make_sheets(_, _, _)
make_sheets(v, df_day, places) ==
    IF places = <<>> THEN [raised |-> FALSE, wb |-> <<>>]
    ELSE The({ IF s.raised THEN [raised |-> TRUE, wb |-> <<>>]
               ELSE The({ [raised |-> rest.raised,
                           wb |-> IF rest.raised THEN <<>>
                                  ELSE <<s.sheet>> \o rest.wb] :
                          rest \in {make_sheets(v, df_day, Tail(places))} }) :
               s \in {make_sheet(v, df_day, Head(places))} })

\* f"{date_str.replace('-', '')}.xlsx"
out_name(date_str) ==
    CASE date_str = "2025-10-25" -> "20251025.xlsx"
      [] date_str = "2025-10-26" -> "20251026.xlsx"
      [] OTHER -> "other.xlsx"

\* make_excel_by_date without "if df_day.empty: raise": a workbook of
\* header-only sheets is saved for a date without rows
make_excel_by_date_no_guard(v, frame, date_str) ==
    The({ IF built.raised THEN [error |-> "exception", wb |-> <<>>]
          ELSE [error |-> "none", wb |-> built.wb] :
          built \in {make_sheets(v,
                         SelectSeq(frame, LAMBDA rec : rec.date = date_str),
                         ALLOWED_PLACES)} })

\* make_excel_by_date with "for place in df_day['place'].unique()": one sheet
\* per place found in the data, in the order found
make_excel_by_date_found_places(v, frame, date_str) ==
    The({ IF df_day = <<>> THEN [error |-> "empty", wb |-> <<>>]
          ELSE The({ IF built.raised
                     THEN [error |-> "exception", wb |-> <<>>]
                     ELSE [error |-> "none", wb |-> built.wb] :
                     built \in {make_sheets(v, df_day,
                                   unique([k \in 1..Len(df_day) |->
                                              df_day[k].place]))} }) :
          df_day \in {SelectSeq(frame, LAMBDA rec : rec.date = date_str)} })

\* make_excel_by_date: [error, wb]; error is "empty" (no row of the date),
\* "exception" (raised while filling the sheets) or "none" (wb is saved)
make_excel_by_date(v, frame, date_str) ==
    The({ IF df_day = <<>> THEN [error |-> "empty", wb |-> <<>>]
          ELSE The({ IF built.raised
                     THEN [error |-> "exception", wb |-> <<>>]
                     ELSE [error |-> "none", wb |-> built.wb] :
                     built \in {make_sheets(v, df_day, ALLOWED_PLACES)} }) :
          df_day \in {SelectSeq(frame, LAMBDA rec : rec.date = date_str)} })

NoFile == [exists |-> FALSE, wb |-> <<>>]
FileOf(wb) == [exists |-> TRUE, wb |-> wb]
FileNames == {out_name(ALLOWED_DATES[k]) : k \in 1..Len(ALLOWED_DATES)}

\* wb.save(out_name): the file system after a call of make_excel_by_date
save_result(fs, date_str, r) ==
    IF r.error = "none"
    THEN [fs EXCEPT ![out_name(date_str)] = FileOf(r.wb)]
    ELSE fs

\* one turn of "for d in target_dates: try ... except": the report entry is a
\* download button holding the bytes of the saved file, or an error message
export_entry(date_str, r) ==
    IF r.error = "none"
    THEN [date |-> date_str, shown |-> "download", data |-> r.wb]
    ELSE [date |-> date_str, shown |-> "error", data |-> <<>>]

\* export_loop with the try around the whole loop: the first failing date
\* ends it
RECURSIVE export_loop_abort(_, _, _, _, _)
export_loop_abort(v, frame, target_dates, fs, report) ==
    IF target_dates = <<>> THEN [report |-> report, files |-> fs]
    ELSE The({ IF r.error # "none"
               THEN [report |-> Append(report,
                                       export_entry(Head(target_dates), r)),
                     files |-> fs]
               ELSE export_loop_abort(v, frame, Tail(target_dates),
                        save_result(fs, Head(target_dates), r),
                        Append(report, export_entry(Head(target_dates), r))) :
               r \in {make_excel_by_date(v, frame, Head(target_dates))} })

\* "for d in target_dates: try ... except": [report, files]
RECURSIVE export_loop(_, _, _, _, _)
export_loop(v, frame, target_dates, fs, report) ==
    IF target_dates = <<>> THEN [report |-> report, files |-> fs]
    ELSE The({ The({ export_loop(v, frame, Tail(target_dates), fs2,
                                  Append(report,
                                         export_entry(Head(target_dates), r))) :
                     fs2 \in {save_result(fs, Head(target_dates), r)} }) :
               r \in {make_excel_by_date(v, frame, Head(target_dates))} })

(***************************************************************************)
(* State shared by the specifications.                                     *)
(***************************************************************************)
NoCall == [op |-> "none", arg |-> <<>>, ret |-> <<>>]
NoCache == [valid |-> FALSE, df |-> <<>>]
NoFiles == [n \in FileNames |-> NoFile]

\* the interpreter before the script has run: nothing stored, nothing rendered
Fresh ==
    /\ store = <<>>
    /\ cache = NoCache
    /\ admin_auth = FALSE
    /\ admin_msg = ""
    /\ page = "none"
    /\ files = NoFiles
    /\ call = NoCall

(***************************************************************************)
(* AxisSpec: time_slots applied to configurations drawn from bounded sets. *)
(***************************************************************************)
MaxTicks == 12
AxisTimes == {HM(540 + 5 * k) : k \in 0..MaxTicks}
AxisSteps == {5, 10, 15, 30}

AxisInit ==
    /\ Fresh
    /\ variant = "app"
    /\ ADMIN_PASSWORD = ""
    /\ df = <<>>

CallTimeSlots(day_start, day_end, step_min) ==
    /\ call' = [op |-> "time_slots",
                arg |-> [day_start |-> day_start, day_end |-> day_end,
                         step_min |-> step_min],
                ret |-> time_slots(day_start, day_end, step_min)]
    /\ UNCHANGED <<variant, ADMIN_PASSWORD, store, cache, admin_auth,
                   admin_msg, page, df, files>>

AxisNext ==
    \E day_start \in AxisTimes, day_end \in AxisTimes, step_min \in AxisSteps :
        CallTimeSlots(day_start, day_end, step_min)

AxisSpec == AxisInit /\ [][AxisNext]_vars

\* C9: for every configuration with day_end > day_start, the axis returned by
\* time_slots is strictly increasing with uniform spacing of step minutes, has
\* (day_end - day_start)/step + 1 entries, and its first and last entries are
\* day_start and day_end.
C9_AxisInclusive ==
    (call.op = "time_slots" /\ call.arg.day_end.min > call.arg.day_start.min)
    => LET axis == call.ret
           n == Len(axis)
           a == call.arg
       IN  /\ n = ((a.day_end.min - a.day_start.min) \div a.step_min) + 1
           /\ \A k \in 1..(n - 1) : axis[k + 1].min - axis[k].min = a.step_min
           /\ axis[1] = a.day_start
           /\ axis[n] = a.day_end

(***************************************************************************)
(* GridSpec: make_excel_by_date and the export loop applied to DataFrames  *)
(* drawn from a bounded set of rows, stored rows of any origin included    *)
(* (reformatted, malformed or empty times, a non-numeric priority, a place *)
(* that is no longer configured).                                          *)
(***************************************************************************)
Slot(k) == SLOTS[k + 1]

GridSpans ==
    { <<Slot(0), Slot(1)>>, <<Slot(0), Slot(2)>>, <<Slot(1), Slot(3)>>,
      <<Slot(1), Slot(1)>>, <<Slot(2), Slot(0)>>,
      <<HMS(540), Slot(2)>>, <<HM(547), Slot(2)>>,
      <<BadText, Slot(1)>>, <<EmptyText, Slot(1)>> }

Row(user, date, place, span, priority) ==
    [user |-> user, date |-> date, place |-> place,
     start |-> span[1], end |-> span[2], priority |-> priority]

GridRows ==
    LET A == <<"A">>
        b == <<"b">>
        D1 == ALLOWED_DATES[1]
        D2 == ALLOWED_DATES[2]
        P1 == ALLOWED_PLACES[1]
        P2 == ALLOWED_PLACES[2]
    IN  {Row(A, D1, P1, sp, 1) : sp \in GridSpans}
        \cup {Row(A, D1, P1, sp, 2) :
                 sp \in {<<Slot(0), Slot(2)>>, <<Slot(1), Slot(3)>>}}
        \cup {Row(A, D1, P1, sp, NA) :
                 sp \in {<<Slot(0), Slot(1)>>, <<Slot(1), Slot(1)>>}}
        \cup {Row(b, D1, P1, sp, 3) :
                 sp \in {<<Slot(0), Slot(1)>>, <<Slot(1), Slot(3)>>}}
        \cup {Row(A, D1, P2, <<Slot(0), Slot(2)>>, 1),
              Row(b, D1, P2, <<Slot(0), Slot(1)>>, 1),
              Row(A, D2, P1, <<Slot(0), Slot(1)>>, 1),
              Row(A, D2, P1, <<BadText, Slot(1)>>, 1),
              Row(A, D1, <<"O", "l", "d">>, <<Slot(0), Slot(1)>>, 1)}

Frames == UNION {[1..n -> GridRows] : n \in 0..MaxRows}

\* every ordering of every subset of the dates
DateLists(dates) ==
    {t \in UNION {[1..n -> dates] : n \in 0..Cardinality(dates)} :
        \A i, j \in 1..Len(t) : i # j => t[i] # t[j]}

DatesOf(frame) == {frame[k].date : k \in 1..Len(frame)}

\* a workbook left in the working directory by an earlier run
StaleFile == FileOf(<<>>)

GridInit ==
    /\ store = <<>>
    /\ cache = NoCache
    /\ admin_auth = FALSE
    /\ admin_msg = ""
    /\ page = "none"
    /\ call = NoCall
    /\ files \in [FileNames -> {NoFile, StaleFile}]
    /\ variant \in {"app", "form"}
    /\ ADMIN_PASSWORD = ""
    /\ df \in Frames

\* a direct call make_excel_by_date(df, date_str)
GridMakeExcel(date_str) ==
    \E r \in {make_excel_by_date(variant, df, date_str)} :
        /\ files' = save_result(files, date_str, r)
        /\ call' = [op |-> "make_excel_by_date", arg |-> date_str,
                    ret |-> r]
        /\ UNCHANGED <<variant, ADMIN_PASSWORD, store, cache, admin_auth,
                       admin_msg, page, df>>

\* the export button pressed with target_dates selected among the dates of df
GridExport(target_dates) ==
    \E r \in {export_loop(variant, df, target_dates, files, <<>>)} :
        /\ files' = r.files
        /\ call' = [op |-> "export", arg |-> target_dates, ret |-> r.report]
        /\ UNCHANGED <<variant, ADMIN_PASSWORD, store, cache, admin_auth,
                       admin_msg, page, df>>

GridNext ==
    \/ \E date_str \in SeqToSet(ALLOWED_DATES) : GridMakeExcel(date_str)
    \/ \E target_dates \in DateLists(DatesOf(df)) : GridExport(target_dates)

GridSpec == GridInit /\ [][GridNext]_vars

(***************************************************************************)
(* Properties of make_excel_by_date and of the export loop (GridSpec).     *)
(***************************************************************************)
\* the workbooks the last operation produced, each with its date
Produced ==
    IF call.op = "make_excel_by_date"
    THEN IF call.ret.error = "none" THEN {<<call.arg, call.ret.wb>>} ELSE {}
    ELSE IF call.op = "export"
    THEN {<<call.ret[k].date, call.ret[k].data>> :
             k \in {i \in 1..Len(call.ret) : call.ret[i].shown = "download"}}
    ELSE {}

\* frame without its k-th row
Without(frame, k) ==
    SubSeq(frame, 1, k - 1) \o SubSeq(frame, k + 1, Len(frame))

\* the cell of requester user at Excel column c in the sheet of place number p
\* of a workbook; an empty cell when the sheet has no row of that requester
CellOf(wb, p, user, c) ==
    IF p \in 1..Len(wb) /\ \E r \in 1..Len(wb[p].rows) : wb[p].rows[r].name = user
    THEN LET r == CHOOSE r \in 1..Len(wb[p].rows) : wb[p].rows[r].name = user
         IN  wb[p].rows[r].cells[c]
    ELSE EmptyCell

\* the 0-based positions i < j of a record's texts on the axis, when both
\* texts are slot labels
OnAxis(rec, i, j) ==
    /\ i \in 0..(Len(SLOTS) - 1)
    /\ j \in 0..(Len(SLOTS) - 1)
    /\ rec.start = SLOTS[i + 1]
    /\ rec.end = SLOTS[j + 1]
    /\ i < j

\* C1: in a produced workbook, a record with start = SLOTS[i], end = SLOTS[j],
\* i < j, adds its label to the columns i .. j-1 of its requester's row and
\* fills them, and leaves every other column of the row (the column of the
\* end label included) as it is without the record.
C1_HalfOpenSpan ==
    \A book \in Produced :
      \A k \in 1..Len(df), p \in 1..Len(ALLOWED_PLACES) :
        \A i, j \in 0..(Len(SLOTS) - 1) :
          ( /\ df[k].date = book[1]
            /\ df[k].place = ALLOWED_PLACES[p]
            /\ OnAxis(df[k], i, j) )
          => LET rest == make_excel_by_date(variant, Without(df, k), book[1]).wb
             IN  \A c \in SlotCols :
                   LET now == CellOf(book[2], p, df[k].user, c)
                       was == CellOf(rest, p, df[k].user, c)
                   IN  IF c - 2 \in i..(j - 1)
                       THEN /\ Len(now.value) = Len(was.value) + 1
                            /\ \E n \in 1..Len(now.value) :
                                  now.value[n] = df[k].priority
                            /\ now.fill = name_to_color(df[k].user)
                       ELSE now = was

\* a one-column record (end = the label after start) whose end column is
\* labelled by another record of the same row only
C1_Witness ==
    \E book \in Produced :
      \E k \in 1..Len(df), p \in 1..Len(ALLOWED_PLACES) :
        \E i \in 0..(Len(SLOTS) - 2) :
          /\ df[k].date = book[1]
          /\ df[k].place = ALLOWED_PLACES[p]
          /\ OnAxis(df[k], i, i + 1)
          /\ CellOf(book[2], p, df[k].user, 2 + i).value = <<df[k].priority>>
          /\ CellOf(book[2], p, df[k].user, 3 + i).value # <<>>
          /\ df[k].priority \notin
                SeqToSet(CellOf(book[2], p, df[k].user, 3 + i).value)

\* whether a stored text denotes the i-th (0-based) slot label: app.py looks
\* a time up after rewriting it as HH:MM, form.py looks the stored text up
AtSlot(v, text, i) ==
    IF v = "app"
    THEN text.fmt \in {"HM", "HMS"} /\ text.min = SLOTS[i + 1].min
    ELSE text = SLOTS[i + 1]

\* whether the record's span covers Excel column c: its texts denote two
\* labels of the axis, the first before the second, and c lies in the
\* half-open span
Covers(v, rec, c) ==
    \E i, j \in 0..(Len(SLOTS) - 1) :
        /\ i < j
        /\ AtSlot(v, rec.start, i)
        /\ AtSlot(v, rec.end, j)
        /\ 2 + i <= c
        /\ c < 2 + j

\* the priorities, in stored order, of the records of (date, place, user)
\* that cover column c
CoveringRanks(v, frame, date_str, place, user, c) ==
    LET hits == SelectSeq(frame, LAMBDA rec :
                    /\ rec.date = date_str
                    /\ rec.place = place
                    /\ rec.user = user
                    /\ Covers(v, rec, c))
    IN  [n \in 1..Len(hits) |-> hits[n].priority]

\* C2: a cell that two or more records of the same requester, date and place
\* cover holds the labels of all of them, once per record, in stored order.
C2_OverlapJoined ==
    \A book \in Produced :
      \A p \in 1..Len(ALLOWED_PLACES) :
        \A r \in 1..Len(book[2][p].rows), c \in SlotCols :
          LET ranks == CoveringRanks(variant, df, book[1], ALLOWED_PLACES[p],
                                     book[2][p].rows[r].name, c)
          IN  Len(ranks) >= 2 => book[2][p].rows[r].cells[c].value = ranks

\* a cell labelled by two records, the second-priority one stored first
C2_Witness ==
    \E book \in Produced :
      \E p \in 1..Len(ALLOWED_PLACES) :
        \E r \in 1..Len(book[2][p].rows), c \in SlotCols :
          /\ book[2][p].rows[r].cells[c].value = <<2, 1>>
          /\ Len(CoveringRanks(variant, df, book[1], ALLOWED_PLACES[p],
                               book[2][p].rows[r].name, c)) = 2

\* a text that is not a well-formed time
Malformed(text) == text.fmt \in {"bad", "empty"}

\* a record the grid building is to drop: a start or end that is not a
\* well-formed time, start equal to or after end, or a start or end that is
\* not a label of the axis
ToBeDropped(v, rec) ==
    \/ Malformed(rec.start)
    \/ Malformed(rec.end)
    \/ rec.start.min >= rec.end.min
    \/ \A i \in 0..(Len(SLOTS) - 1) : ~AtSlot(v, rec.start, i)
    \/ \A j \in 0..(Len(SLOTS) - 1) : ~AtSlot(v, rec.end, j)

\* C3: a call of make_excel_by_date for a date with a record to be dropped
\* (its priority a number, the other rows of the date building without an
\* exception) completes, saves its artifact, and every cell is as it is
\* without that record.
C3_InvalidDropped ==
    call.op = "make_excel_by_date"
    => \A k \in 1..Len(df) :
         LET rest == make_excel_by_date(variant, Without(df, k), call.arg)
         IN  ( /\ df[k].date = call.arg
               /\ ToBeDropped(variant, df[k])
               /\ df[k].priority # NA
               /\ rest.error # "exception" )
             => /\ call.ret.error = "none"
                /\ files[out_name(call.arg)] = FileOf(call.ret.wb)
                /\ \A p \in 1..Len(ALLOWED_PLACES), c \in SlotCols :
                     \A n \in 1..Len(df) :
                        CellOf(call.ret.wb, p, df[n].user, c)
                          = CellOf(rest.wb, p, df[n].user, c)

\* C6: a call of make_excel_by_date for a date without any row in df fails
\* with the no-data error and leaves every file as it was.
C6_NoArtifactForEmptyDate ==
    [][ ( /\ call'.op = "make_excel_by_date"
          /\ call'.arg \notin DatesOf(df) )
        => ( /\ call'.ret.error = "empty"
             /\ call'.ret.wb = <<>>
             /\ files' = files ) ]_vars

\* the call failed for a date without rows while an earlier artifact of that
\* name lies in the directory, and the artifact is still there
C6_Witness ==
    /\ call.op = "make_excel_by_date"
    /\ call.arg \notin DatesOf(df)
    /\ df # <<>>
    /\ call.ret.error = "empty"
    /\ files[out_name(call.arg)] = StaleFile

\* C7: the export handler reports every requested date, in order; a date gets
\* its download and its file exactly when its own build succeeds, whatever
\* happened to the dates before and after it.
C7_FailureIsPerDate ==
    call.op = "export"
    => /\ Len(call.ret) = Len(call.arg)
       /\ \A n \in 1..Len(call.arg) :
            LET own == make_excel_by_date(variant, df, call.arg[n])
            IN  /\ call.ret[n].date = call.arg[n]
                /\ (call.ret[n].shown = "download") = (own.error = "none")
                /\ own.error = "none"
                   => /\ call.ret[n].data = own.wb
                      /\ files[out_name(call.arg[n])] = FileOf(own.wb)

\* two dates exported, the first failed and the second got its download
C7_Witness ==
    /\ call.op = "export"
    /\ Len(call.ret) = 2
    /\ call.ret[1].shown = "error"
    /\ call.ret[2].shown = "download"
    /\ files[out_name(call.arg[2])].exists

\* C8: a produced workbook has one sheet per configured place, in the order of
\* ALLOWED_PLACES; each has the header row (the name column, then one column
\* per slot label), and the sheet of a place without a row of that date has
\* no requester row.
C8_SheetPerConfiguredPlace ==
    \A book \in Produced :
        /\ Len(book[2]) = Len(ALLOWED_PLACES)
        /\ \A p \in 1..Len(book[2]) :
             /\ book[2][p].title
                  = SubSeq(ALLOWED_PLACES[p], 1, Len(book[2][p].title))
             /\ Len(book[2][p].title) = Len(ALLOWED_PLACES[p])
                \/ Len(book[2][p].title) = SheetTitleMax
             /\ Len(book[2][p].header) = 1 + Len(SLOTS)
             /\ \A n \in 1..Len(SLOTS) : book[2][p].header[n + 1] = SLOTS[n]
             /\ (\A k \in 1..Len(df) :
                    ~(df[k].date = book[1] /\ df[k].place = ALLOWED_PLACES[p]))
                => book[2][p].rows = <<>>

\* a workbook whose first sheet is empty: the data of the date name the
\* second configured place only
C8_Witness ==
    \E book \in Produced :
        /\ Len(book[2]) = 2
        /\ book[2][1].rows = <<>>
        /\ book[2][2].rows # <<>>
        /\ \E k \in 1..Len(df) :
              df[k].date = book[1] /\ df[k].place = ALLOWED_PLACES[2]

(***************************************************************************)
(* The script (Spec).  Every action is one run of the script from top to   *)
(* bottom, started by one widget interaction: the user tab with the submit *)
(* handler, then the admin tab.  The worksheet returns the texts that were *)
(* appended to it.                                                         *)
(***************************************************************************)
IsSpace(ch) == ch = " "

\* str.strip(): without leading and trailing whitespace
RECURSIVE lstrip(_)
lstrip(s) ==
    IF s # <<>> /\ IsSpace(Head(s)) THEN lstrip(Tail(s)) ELSE s

RECURSIVE rstrip(_)
rstrip(s) ==
    IF s # <<>> /\ IsSpace(s[Len(s)])
    THEN rstrip(SubSeq(s, 1, Len(s) - 1)) ELSE s

strip(s) == rstrip(lstrip(s))

\* the text inputs of the form: app.py asks for the group and its
\* representative, form.py for a name only
Names == {<<" ">>, <<"A">>, <<" ", "a">>}

Contact(rep_name, faculty, email, phone, remarks) ==
    [rep_name |-> rep_name, faculty |-> faculty, email |-> email,
     phone |-> phone, remarks |-> remarks]

NoContact == Contact(<<>>, <<>>, <<>>, <<>>, <<>>)

Contacts(v) ==
    IF v = "app"
    THEN {Contact(<<"r">>, <<"f">>, <<"e">>, <<"0">>, <<>>),
          Contact(<<"r">>, <<"f">>, <<"e">>, <<" ">>, <<"m">>)}
    ELSE {NoContact}

\* hope_block: the four select boxes of one preference; start is chosen among
\* SLOTS[:-1], end among SLOTS[1:]
Hope(date, place, start, end) ==
    [date |-> date, place |-> place, start |-> start, end |-> end]

HopeChoices ==
    {Hope(d, p, s, e) :
        d \in SeqToSet(ALLOWED_DATES), p \in SeqToSet(ALLOWED_PLACES),
        s \in SeqToSet(SubSeq(SLOTS, 1, Len(SLOTS) - 1)),
        e \in SeqToSet(SubSeq(SLOTS, 2, Len(SLOTS)))}

\* the selections the model submits, for the first, second and third hope
Hopes1 ==
    {h \in HopeChoices :
        \/ h = Hope(ALLOWED_DATES[1], ALLOWED_PLACES[1], Slot(0), Slot(2))
        \/ h = Hope(ALLOWED_DATES[1], ALLOWED_PLACES[1], Slot(2), Slot(1))}

Hopes2 ==
    {h \in HopeChoices :
        \/ h = Hope(ALLOWED_DATES[1], ALLOWED_PLACES[1], Slot(1), Slot(3))
        \/ h = Hope(ALLOWED_DATES[1], ALLOWED_PLACES[2], Slot(1), Slot(1))}

Hopes3 ==
    {h \in HopeChoices :
        h = Hope(ALLOWED_DATES[2], ALLOWED_PLACES[2], Slot(0), Slot(1))}

Inputs(v) ==
    [name : Names, contact : Contacts(v), h1 : Hopes1, h2 : Hopes2, h3 : Hopes3]

\* the messages for the required fields that are blank after strip()
field_errors(v, inp) ==
    (IF strip(inp.name) = <<>> THEN <<"name">> ELSE <<>>)
    \o (IF v = "app" /\ strip(inp.contact.rep_name) = <<>>
        THEN <<"rep_name">> ELSE <<>>)
    \o (IF v = "app" /\ strip(inp.contact.faculty) = <<>>
        THEN <<"faculty">> ELSE <<>>)
    \o (IF v = "app" /\ strip(inp.contact.email) = <<>>
        THEN <<"email">> ELSE <<>>)
    \o (IF v = "app" /\ strip(inp.contact.phone) = <<>>
        THEN <<"phone">> ELSE <<>>)

\* the messages for the hopes that fail validate_range
range_errors(inp) ==
    (IF ~validate_range(inp.h1.start, inp.h1.end).ok
     THEN <<"range1">> ELSE <<>>)
    \o (IF ~validate_range(inp.h2.start, inp.h2.end).ok
        THEN <<"range2">> ELSE <<>>)
    \o (IF ~validate_range(inp.h3.start, inp.h3.end).ok
        THEN <<"range3">> ELSE <<>>)

\* submit_errors without the loop over the ranges
submit_errors_no_ranges(v, inp) == field_errors(v, inp)

\* the error messages of the submit handler, in the order they are appended
submit_errors(v, inp) == field_errors(v, inp) \o range_errors(inp)

\* one row of the batch
StoreRow(ts, inp, h, priority) ==
    [timestamp |-> ts, user |-> inp.name, contact |-> inp.contact,
     date |-> h.date, place |-> h.place, start |-> h.start, end |-> h.end,
     priority |-> priority]

\* rows = [[ts, ..., 1, ...], [ts, ..., 2, ...], [ts, ..., 3, ...]]
submit_rows(ts, inp) ==
    << StoreRow(ts, inp, inp.h1, 1), StoreRow(ts, inp, inp.h2, 2),
       StoreRow(ts, inp, inp.h3, 3) >>

\* load_df(): the cached DataFrame while the cache holds one, else the rows
\* read from the worksheet, which the cache then holds: [df, cache]
load_df(c, rows) ==
    IF c.valid THEN [df |-> c.df, cache |-> c]
    ELSE [df |-> rows, cache |-> [valid |-> TRUE, df |-> rows]]

\* the cache entry left in place, as if load_df.clear() were not called
load_df_clear_skipped(c) == c

\* load_df.clear(): the cache holds no DataFrame afterwards
load_df_clear(c) == NoCache

\* whether a run that starts with this session state takes the admin branch
\* of the admin tab (form.py has no other branch)
AdminBranch(v, auth) == v = "form" \/ auth

\* the admin tab of a run in which no button of it is pressed: the listing
\* with the loaded DataFrame, or the login form
RenderAdmin(v, auth, c, rows) ==
    IF AdminBranch(v, auth)
    THEN \E l \in {load_df(c, rows)} :
            /\ page' = "admin"
            /\ df' = l.df
            /\ cache' = l.cache
    ELSE /\ page' = "login"
         /\ df' = <<>>
         /\ cache' = c

Init ==
    /\ Fresh
    /\ df = <<>>
    /\ \/ variant = "app" /\ ADMIN_PASSWORD \in {"", "pw"}
       \/ variant = "form" /\ ADMIN_PASSWORD = ""

\* any interaction that presses no button (the first load, typing, selecting)
Rerun ==
    /\ RenderAdmin(variant, admin_auth, cache, store)
    /\ call' = [op |-> "rerun", arg |-> <<>>, ret |-> <<>>]
    /\ UNCHANGED <<variant, ADMIN_PASSWORD, store, admin_auth, admin_msg, files>>

\* datetime.now(JST): a second not before the last stored timestamp
Now(rows) ==
    {t \in 0..MaxClock : rows = <<>> \/ rows[Len(rows)].timestamp <= t}

\* the submit button, with the form filled as inp.  ts is the second read
\* from the clock, ok whether append_rows succeeds.
Submit(inp) ==
    /\ page # "none"
    /\ IF submit_errors(variant, inp) # <<>>
       THEN /\ store' = store
            /\ call' = [op |-> "submit", arg |-> inp, ret |-> "rejected"]
            /\ RenderAdmin(variant, admin_auth, cache, store)
       ELSE \E ts \in Now(store), ok \in BOOLEAN :
              IF ok
              THEN /\ Len(store) < 3 * MaxSubmits
                   /\ store' = store \o submit_rows(ts, inp)
                   /\ call' = [op |-> "submit", arg |-> inp, ret |-> "sent"]
                   /\ RenderAdmin(variant, admin_auth, load_df_clear(cache), store')
              ELSE /\ store' = store
                   /\ call' = [op |-> "submit", arg |-> inp, ret |-> "failed"]
                   /\ RenderAdmin(variant, admin_auth, cache, store)
    /\ UNCHANGED <<variant, ADMIN_PASSWORD, admin_auth, admin_msg, files>>

\* the login button with pwd typed; a success reruns the script
Login(pwd) ==
    /\ page = "login"
    /\ IF ADMIN_PASSWORD # "" /\ pwd = ADMIN_PASSWORD
       THEN /\ admin_auth' = TRUE
            /\ admin_msg' = "login ok"
            /\ RenderAdmin(variant, TRUE, cache, store)
            /\ call' = [op |-> "login", arg |-> pwd, ret |-> "ok"]
       ELSE /\ UNCHANGED <<admin_auth, admin_msg>>
            /\ RenderAdmin(variant, admin_auth, cache, store)
            /\ call' = [op |-> "login", arg |-> pwd, ret |-> "error"]
    /\ UNCHANGED <<variant, ADMIN_PASSWORD, store, files>>

\* the cancel button of the login form: clears the message and reruns
Cancel ==
    /\ page = "login"
    /\ admin_msg' = ""
    /\ RenderAdmin(variant, admin_auth, cache, store)
    /\ call' = [op |-> "cancel", arg |-> <<>>, ret |-> <<>>]
    /\ UNCHANGED <<variant, ADMIN_PASSWORD, store, admin_auth, files>>

\* the logout button of the admin branch.  The run that handles the press is
\* already inside the branch: it clears the flag and goes on to load and show
\* the listing.  A run that starts with the flag cleared shows the login form.
Logout ==
    /\ variant = "app"
    /\ page = "admin"
    /\ IF admin_auth
       THEN /\ admin_auth' = FALSE
            /\ admin_msg' = "logged out"
            /\ RenderAdmin(variant, TRUE, cache, store)
            /\ call' = [op |-> "logout", arg |-> <<>>, ret |-> "done"]
       ELSE /\ UNCHANGED <<admin_auth, admin_msg>>
            /\ RenderAdmin(variant, FALSE, cache, store)
            /\ call' = [op |-> "logout", arg |-> <<>>, ret |-> "not shown"]
    /\ UNCHANGED <<variant, ADMIN_PASSWORD, store, files>>

\* the export button with target_dates selected among the dates listed
Export(target_dates) ==
    /\ page = "admin"
    /\ IF AdminBranch(variant, admin_auth)
       THEN \E l \in {load_df(cache, store)} :
              \E r \in {export_loop(variant, l.df, target_dates, files, <<>>)} :
                /\ page' = "admin"
                /\ df' = l.df
                /\ cache' = l.cache
                /\ files' = r.files
                /\ call' = [op |-> "export", arg |-> target_dates,
                            ret |-> r.report]
       ELSE /\ RenderAdmin(variant, admin_auth, cache, store)
            /\ files' = files
            /\ call' = [op |-> "export", arg |-> target_dates, ret |-> <<>>]
    /\ UNCHANGED <<variant, ADMIN_PASSWORD, store, admin_auth, admin_msg>>

\* the 30 seconds of the cache's ttl pass
Expire ==
    /\ cache.valid
    /\ cache' = NoCache
    /\ UNCHANGED <<variant, ADMIN_PASSWORD, store, admin_auth, admin_msg,
                   page, df, files, call>>

Passwords == {"", "pw", "PW"}

Next ==
    \/ Rerun
    \/ \E inp \in Inputs(variant) : Submit(inp)
    \/ \E pwd \in Passwords : Login(pwd)
    \/ Cancel
    \/ Logout
    \/ \E target_dates \in DateLists(DatesOf(df)) : Export(target_dates)
    \/ Expire

Spec == Init /\ [][Next]_vars

\* the rows of a DataFrame in the opposite order
Reversed(frame) == [k \in 1..Len(frame) |-> frame[Len(frame) + 1 - k]]

\* the fills of the labelled cells of requester user in a workbook
FillsOf(wb, user) ==
    {wb[p].rows[r].cells[c].fill :
        <<p, r, c>> \in {t \in (1..Len(wb)) \X (1..MaxRows) \X SlotCols :
                            /\ t[2] <= Len(wb[t[1]].rows)
                            /\ wb[t[1]].rows[t[2]].name = user
                            /\ wb[t[1]].rows[t[2]].cells[t[3]].value # <<>>}}

\* C12: in every sheet of a produced workbook each labelled cell of a
\* requester row is filled with name_to_color of that row's requester,
\* whatever priorities its label joins, and an unlabelled cell has no fill;
\* the workbook built from the same rows in the opposite order gives the
\* requester no other colour.
C12_OneColourPerRequester ==
    \A book \in Produced :
      /\ \A p \in 1..Len(book[2]) :
           \A r \in 1..Len(book[2][p].rows) :
             \A c \in SlotCols :
               LET row == book[2][p].rows[r]
               IN  IF row.cells[c].value # <<>>
                   THEN row.cells[c].fill = name_to_color(row.name)
                   ELSE row.cells[c].fill = "none"
      /\ \A other \in {make_excel_by_date(variant, Reversed(df), book[1])} :
           /\ other.error = "none"
           /\ \A k \in 1..Len(df) :
                /\ FillsOf(other.wb, df[k].user) = FillsOf(book[2], df[k].user)
                /\ FillsOf(book[2], df[k].user) \subseteq
                      {name_to_color(df[k].user)}

\* a requester row with a cell labelled by two priorities next to a cell
\* labelled by one of them, in a workbook where the row has its one colour
C12_Witness ==
    \E book \in Produced :
      \E p \in 1..Len(book[2]) :
        \E r \in 1..Len(book[2][p].rows) :
          \E c1, c2 \in SlotCols :
            LET row == book[2][p].rows[r]
            IN  /\ Len(row.cells[c1].value) = 2
                /\ row.cells[c1].value[1] # row.cells[c1].value[2]
                /\ Len(row.cells[c2].value) = 1
                /\ row.cells[c1].fill = name_to_color(row.name)
                /\ row.cells[c2].fill = row.cells[c1].fill

(***************************************************************************)
(* Properties of the script (Spec).                                        *)
(***************************************************************************)
\* a text with nothing but whitespace in it
Blank(s) == \A n \in 1..Len(s) : IsSpace(s[n])

\* the position of a select-box choice on the axis
SlotNo(label) == CHOOSE n \in 1..Len(SLOTS) : SLOTS[n] = label

\* a filled form that has a validation error: a required field blank after
\* trimming, or a hope whose start is not before its end
HasValidationError(v, inp) ==
    \/ Blank(inp.name)
    \/ /\ v = "app"
       /\ \/ Blank(inp.contact.rep_name)
          \/ Blank(inp.contact.faculty)
          \/ Blank(inp.contact.email)
          \/ Blank(inp.contact.phone)
    \/ \E h \in {inp.h1, inp.h2, inp.h3} : SlotNo(h.start) >= SlotNo(h.end)

\* C4: the store changes in a submission only (a step that records a
\* submission is one that changes the record or the store); a submission with a validation
\* error leaves it unchanged, any other appends nothing (the append failed) or
\* exactly three rows with priorities 1, 2, 3 in that order, the submitted
\* identity and one timestamp.
C4_AllOrNothing ==
    [][ /\ store' # store => call'.op = "submit"
        /\ (call'.op = "submit" /\ (call' # call \/ store' # store))
           => IF HasValidationError(variant, call'.arg)
              THEN store' = store /\ call'.ret = "rejected"
              ELSE \/ store' = store /\ call'.ret = "failed"
                   \/ /\ call'.ret = "sent"
                      /\ Len(store') = Len(store) + 3
                      /\ SubSeq(store', 1, Len(store)) = store
                      /\ \A n \in 1..3 :
                           LET row == store'[Len(store) + n]
                               h == <<call'.arg.h1, call'.arg.h2,
                                      call'.arg.h3>>[n]
                           IN  /\ row.priority = n
                               /\ row.user = call'.arg.name
                               /\ row.timestamp = store'[Len(store) + 1].timestamp
                               /\ row.date = h.date
                               /\ row.place = h.place
                               /\ row.start = h.start
                               /\ row.end = h.end ]_vars

\* a submission with a filled name and an inverted range was rejected after
\* an earlier one had been stored
C4_Witness ==
    /\ call.op = "submit"
    /\ call.ret = "rejected"
    /\ ~Blank(call.arg.name)
    /\ Len(store) = 3

\* lower case of a character
Fold(ch) ==
    CASE ch = "A" -> "a"
      [] ch = "B" -> "b"
      [] OTHER -> ch

\* runs of whitespace collapsed to one space
RECURSIVE Collapse(_)
Collapse(s) ==
    IF Len(s) < 2 THEN s
    ELSE IF IsSpace(s[1]) /\ IsSpace(s[2]) THEN Collapse(Tail(s))
    ELSE <<s[1]>> \o Collapse(Tail(s))

\* an identity trimmed, whitespace-collapsed and case-folded
Canonical(name) ==
    LET t == Collapse(strip(name))
    IN  [n \in 1..Len(t) |-> Fold(t[n])]

\* C5: no two submissions in the store (a submission is three consecutive
\* rows) have the same trimmed, whitespace-collapsed, case-folded identity.
C5_UniqueIdentity ==
    \A a, b \in 1..(Len(store) \div 3) :
        a # b => Canonical(store[3 * a].user) # Canonical(store[3 * b].user)

\* C10: in the gated script the admin branch (the data listing and the export
\* button) is on the page only while the authenticated flag is true.
C10_AdminGate ==
    (variant = "app" /\ page = "admin") => admin_auth

\* a step taken by the submit handler
SubmitStep == call'.op = "submit" /\ (call' # call \/ store' # store)

\* C11: a submission whose append succeeds clears the load_df cache before
\* the admin tab of the same run loads, so the DataFrame that run shows is
\* read from the worksheet and ends with the three appended rows, and the
\* cache never holds anything but the rows now stored; a submission whose
\* append fails, or that validation rejects, leaves a cached DataFrame in
\* place, and a listing shown in that run is served from it.
C11_CacheCleared ==
    [][ /\ cache'.valid => cache'.df = store'
        /\ SubmitStep =>
             IF call'.ret = "sent"
             THEN page' = "admin" =>
                    /\ df' = store'
                    /\ SubSeq(df', Len(df') - 2, Len(df')) =
                          SubSeq(store', Len(store') - 2, Len(store'))
                    /\ cache' = [valid |-> TRUE, df |-> store']
             ELSE /\ store' = store
                  /\ cache.valid =>
                       /\ cache' = cache
                       /\ page' = "admin" => df' = cache.df ]_vars

\* a second successful submission, made while an earlier read was cached or
\* expired, whose run lists all six rows
C11_Witness ==
    /\ call.op = "submit"
    /\ call.ret = "sent"
    /\ Len(store) = 6
    /\ page = "admin"
    /\ cache.valid
    /\ df = store

====
